---- MODULE Spec2Model ----
(***************************************************************************)
(* A model of the property price prediction service                       *)
(* (predictor/ml_utils.py, predictor/views.py, predictor/serializers.py,  *)
(* predictor/apps.py).                                                     *)
(*                                                                         *)
(* Numbers.  The Python code computes in binary floating point.  Here      *)
(* every money amount is a fixed-point integer with Scale units per money  *)
(* unit (one money unit = one million KSh), Scale = 10 * NumTrees, so that *)
(* the mean over the trees and the 0.5/0.3/0.2 blend are exact integers.   *)
(* Square roots are integer square roots (rounded down); the confidence    *)
(* score is a fixed-point integer with ConfScale units for 1.0, and        *)
(* bath_bed_ratio one with RatioScale units for 1.0.                       *)
(*                                                                         *)
(* Python values.  A dict is a function whose DOMAIN is its key set, so a  *)
(* missing key is a key outside the DOMAIN.  An optional size is <<>> for  *)
(* None and <<v>> for the number v.                                        *)
(***************************************************************************)
EXTENDS Integers, Sequences, FiniteSets, TLC

VARIABLES
    procState,   \* "booting" until PredictorConfig.ready returns, then "serving"
    loadState,   \* Model Bank loading: "UNLOADED", "LOADING", "READY", "FAILED"
    predictor,   \* the module-level singleton of ml_utils.py: NoPredictor or a loaded bank
    nLoads,      \* how many times load_models ran to completion successfully
    pc,          \* per worker: "idle", or "prepared" (prepare_input returned, ensemble_predict is next)
    call,        \* per worker: the call in flight
    resp,        \* per worker: the answer to its last finished call
    nRecords     \* number of PredictionRequest rows stored

vars == <<procState, loadState, predictor, nLoads, pc, call, resp, nRecords>>

----------------------------------------------------------------------------
(* Bounds of the model *)

NumTrees == 2
MaxRecords == 2
MaxBatch == 2
ConfScale == 1000
RatioScale == 100

Scale == 10 * NumTrees

Workers == {"w1", "w2"}

----------------------------------------------------------------------------
(* Arithmetic *)

Max(a, b) == IF a >= b THEN a ELSE b

Min(a, b) == IF a <= b THEN a ELSE b

RECURSIVE SumSeq(_)
SumSeq(s) == IF s = <<>> THEN 0 ELSE Head(s) + SumSeq(Tail(s))

RECURSIVE ISqrtIn(_, _, _)
ISqrtIn(x, lo, hi) ==
    IF lo >= hi THEN lo
    ELSE LET mid == (lo + hi + 1) \div 2
         IN  IF mid * mid <= x THEN ISqrtIn(x, mid, hi) ELSE ISqrtIn(x, lo, mid - 1)

\* floor of the square root of x >= 0
ISqrt(x) == ISqrtIn(x, 0, Min(x, 46340))

\* Len(s) * numpy.mean(s)
np_mean_n(s) == SumSeq(s)

\* Len(s) * numpy.std(s), the population standard deviation, rounded down:
\* (n*std)^2 = n * sum(x^2) - (sum x)^2
np_std_n(s) ==
    ISqrt(Len(s) * SumSeq([i \in 1..Len(s) |-> s[i] * s[i]]) - SumSeq(s) * SumSeq(s))

----------------------------------------------------------------------------
(* Python values *)

None == <<>>

Num(v) == <<v>>

IsNone(v) == v = <<>>

\* dict.get(k, default)
dict_get(d, k, default) == IF k \in DOMAIN d THEN d[k] ELSE default

\* Python truthiness of an optional number: None and 0 are falsy
Truthy(v) == ~IsNone(v) /\ v[1] # 0

----------------------------------------------------------------------------
(* Declared choices (models.py).  Two of the five property types and two  *)
(* of the 26 locations stand for the declared choices; "Castle" and        *)
(* "Atlantis" stand for values outside them.                               *)

PropertyTypeChoices == {"Apartment", "Townhouse"}

LocationChoices == {"Karen", "Kilimani"}

PropertyTypeInputs == PropertyTypeChoices \cup {"Castle"}

LocationInputs == LocationChoices \cup {"Atlantis"}

----------------------------------------------------------------------------
(* The artifact sets load_models can find on disk.  The fitted estimators  *)
(* are opaque library objects; each is modelled by a small function of the *)
(* feature vector so that its input matters:                               *)
(*   - a tree (and the gradient-boosted model) is a stump on one column;   *)
(*   - the linear model is intercept_ + coef * one column;                 *)
(*   - the scaler (StandardScaler) maps x to (x - mean_) / scale_.         *)
(* The random forest's prediction is the mean over its estimators_.        *)

FeatureNames ==
    << "propertyType", "Location", "Bedroom", "bathroom", "House size", "Land size",
       "bath_bed_ratio", "total_area", "location_premium", "property_premium" >>

Stump(col, thr, lo, hi) == [col |-> col, thr |-> thr, lo |-> lo, hi |-> hi]

Linear(intercept, col, coef) == [intercept_ |-> intercept, col |-> col, coef |-> coef]

Scaler(mean) ==
    [mean_ |-> [i \in 1..Len(FeatureNames) |-> mean], scale_ |-> [i \in 1..Len(FeatureNames) |-> 1]]

Importances == << 5, 30, 10, 5, 20, 10, 5, 10, 3, 2 >>

Stats ==
    [ median_values |-> ("House size" :> 120) @@ ("Land size" :> 50),
      location_premium |-> ("Karen" :> 5) @@ ("Kilimani" :> 3),
      property_premium |-> ("Apartment" :> 1),
      metrics |-> [mae |-> 15, r2 |-> 95] ]

Bank(forest, gb, ridge, scaler, props, locs, names) ==
    [ models |-> [ rf |-> [estimators_ |-> forest, feature_importances_ |-> Importances],
                   gb |-> gb, ridge |-> ridge, scaler |-> scaler ],
      le_property |-> [classes_ |-> props],
      le_location |-> [classes_ |-> locs],
      feature_names |-> names,
      stats |-> Stats ]

AllTypes == << "Apartment", "Townhouse" >>

AllLocations == << "Karen", "Kilimani" >>

\* every model is a constant: rf = 20, gb = 21, ridge = 19, identity scaler
StubBank ==
    Bank([i \in 1..NumTrees |-> Stump(1, 0, 20, 20)], Stump(1, 0, 21, 21),
         Linear(19, 1, 0), Scaler(0), AllTypes, AllLocations, FeatureNames)

\* every model reads the features; the scaler shifts every column by 1
VariedBank ==
    Bank([i \in 1..NumTrees |-> Stump(5, 100, 4 * i, 10 + 10 * i)], Stump(8, 140, 6, 24),
         Linear(2, 3, 1), Scaler(1), AllTypes, AllLocations, FeatureNames)

\* the linear model is so negative that the blended price is negative
NegativeBank ==
    Bank([i \in 1..NumTrees |-> Stump(1, 0, 1, 1)], Stump(1, 0, 1, 1),
         Linear(-11, 3, -1), Scaler(0), AllTypes, AllLocations, FeatureNames)

\* the models disagree widely and so do the trees
DisagreeBank ==
    Bank([i \in 1..NumTrees |-> Stump(1, 0, 2 * (i - 1), 2 * (i - 1))], Stump(1, 0, 30, 30),
         Linear(-40, 1, 0), Scaler(0), AllTypes, AllLocations, FeatureNames)

\* the training data held fewer categories than models.py declares
PartialVocabBank ==
    Bank([i \in 1..NumTrees |-> Stump(1, 0, 20, 20)], Stump(1, 0, 21, 21),
         Linear(19, 1, 0), Scaler(0), << "Apartment" >>, << "Kilimani" >>, FeatureNames)

\* feature_names.pkl names a column the engine does not produce
MisnamedBank ==
    Bank([i \in 1..NumTrees |-> Stump(1, 0, 20, 20)], Stump(1, 0, 21, 21),
         Linear(19, 1, 0), Scaler(0), AllTypes, AllLocations,
         [FeatureNames EXCEPT ![5] = "house_size"])

\* a retrained artifact set whose models were fitted on two columns only
SlimBank ==
    [ models |-> [ rf |-> [ estimators_ |-> [i \in 1..NumTrees |-> Stump(2, 100, 4 * i, 10 + 10 * i)],
                            feature_importances_ |-> << 40, 60 >> ],
                   gb |-> Stump(1, 0, 6, 24), ridge |-> Linear(2, 2, 0),
                   scaler |-> [mean_ |-> << 0, 0 >>, scale_ |-> << 1, 1 >>] ],
      le_property |-> [classes_ |-> AllTypes],
      le_location |-> [classes_ |-> AllLocations],
      feature_names |-> << "Location", "House size" >>,
      stats |-> Stats ]

ArtifactSets ==
    {StubBank, VariedBank, NegativeBank, DisagreeBank, PartialVocabBank, MisnamedBank, SlimBank}

NoPredictor == [loaded |-> FALSE]

----------------------------------------------------------------------------
(* PropertyPricePredictor (ml_utils.py).  `self` is the loaded predictor.  *)
(* A call that raises returns a record whose err names the exception.      *)

EmptyDict == <<>>

Range(s) == {s[i] : i \in DOMAIN s}

\* LabelEncoder.transform: the 0-based position in the sorted classes_
LabelIndex(classes, v) == (CHOOSE i \in DOMAIN classes : classes[i] = v) - 1

engineer_features(self, data) ==
    IF data["Bedroom"] = 0
    THEN [err |-> "ZeroDivisionError", data |-> data]
    ELSE IF IsNone(dict_get(data, "House size", Num(0))) \/ IsNone(dict_get(data, "Land size", Num(0)))
    THEN [err |-> "TypeError", data |-> data]
    ELSE
      LET bath_bed_ratio == (data["bathroom"] * RatioScale) \div data["Bedroom"]
          total_area == dict_get(data, "House size", Num(0))[1] + dict_get(data, "Land size", Num(0))[1]
          location_premiums ==
              [loc \in Range(self.le_location.classes_) |->
                  dict_get(dict_get(self.stats, "location_premium", EmptyDict), loc, 0)]
          property_premiums ==
              [prop \in Range(self.le_property.classes_) |->
                  dict_get(dict_get(self.stats, "property_premium", EmptyDict), prop, 0)]
      IN  [ err |-> "",
            data |-> ("bath_bed_ratio" :> bath_bed_ratio) @@ ("total_area" :> total_area)
                     @@ ("location_premium" :> dict_get(location_premiums, data["Location"], 0))
                     @@ ("property_premium" :> dict_get(property_premiums, data["propertyType"], 0))
                     @@ data ]

prepare_input(self, property_data) ==
    LET data ==
            ("propertyType" :> property_data["property_type"])
            @@ ("Location" :> property_data["location"])
            @@ ("Bedroom" :> property_data["bedrooms"])
            @@ ("bathroom" :> property_data["bathrooms"])
            @@ ("House size" :> dict_get(property_data, "house_size",
                                         Num(self.stats.median_values["House size"])))
            @@ ("Land size" :> dict_get(property_data, "land_size",
                                        Num(self.stats.median_values["Land size"])))
        eng == engineer_features(self, data)
    IN  IF eng.err # "" THEN [err |-> eng.err, X |-> <<>>]
        ELSE IF \/ eng.data["propertyType"] \notin Range(self.le_property.classes_)
                \/ eng.data["Location"] \notin Range(self.le_location.classes_)
        THEN [err |-> "ValueError", X |-> <<>>]
        ELSE
          LET df == ("propertyType" :> LabelIndex(self.le_property.classes_, eng.data["propertyType"]))
                    @@ ("Location" :> LabelIndex(self.le_location.classes_, eng.data["Location"]))
                    @@ ("House size" :> eng.data["House size"][1])
                    @@ ("Land size" :> eng.data["Land size"][1])
                    @@ eng.data
          IN  IF \E i \in DOMAIN self.feature_names : self.feature_names[i] \notin DOMAIN df
              THEN [err |-> "KeyError", X |-> <<>>]
              ELSE [err |-> "", X |-> [i \in DOMAIN self.feature_names |-> df[self.feature_names[i]]]]

\* scaler.transform(X)
scaler_transform(scaler, X) ==
    [i \in DOMAIN X |-> (X[i] - scaler.mean_[i]) \div scaler.scale_[i]]

\* a decision tree's (and the gradient-boosted model's) predict(X)[0]
tree_predict(tree, X) == Scale * (IF X[tree.col] <= tree.thr THEN tree.lo ELSE tree.hi)

\* the per-tree predictions, [tree.predict(X)[0] for tree in rf.estimators_]
tree_predictions(rf, X) == [i \in DOMAIN rf.estimators_ |-> tree_predict(rf.estimators_[i], X)]

\* RandomForestRegressor.predict(X)[0]: the mean over the estimators
rf_predict(rf, X) == np_mean_n(tree_predictions(rf, X)) \div Len(rf.estimators_)

\* Ridge.predict(X)[0]
ridge_predict(ridge, X) == Scale * (ridge.intercept_ + ridge.coef * X[ridge.col])

\* mutant: the linear model is given the unscaled features
ensemble_predict_unscaled(self, X) ==
    LET rf_pred == rf_predict(self.models.rf, X)
        gb_pred == tree_predict(self.models.gb, X)
        ridge_pred == ridge_predict(self.models.ridge, X)
    IN  (5 * rf_pred + 3 * gb_pred + 2 * ridge_pred) \div 10

\* mutant: the price drifts with the predictions stored so far
ensemble_predict_drifting(self, X) ==
    LET X_scaled == scaler_transform(self.models.scaler, X)
        rf_pred == rf_predict(self.models.rf, X)
        gb_pred == tree_predict(self.models.gb, X)
        ridge_pred == ridge_predict(self.models.ridge, X_scaled)
    IN  (5 * rf_pred + 3 * gb_pred + 2 * ridge_pred) \div 10 + Scale * nRecords

ensemble_predict(self, X) ==
    LET X_scaled == scaler_transform(self.models.scaler, X)
        rf_pred == rf_predict(self.models.rf, X)
        gb_pred == tree_predict(self.models.gb, X)
        ridge_pred == ridge_predict(self.models.ridge, X_scaled)
    IN  (5 * rf_pred + 3 * gb_pred + 2 * ridge_pred) \div 10

\* mutant: the score is not floored at 0
confidence_not_floored(predictions) ==
    LET std_dev_n == np_std_n(predictions)
        mean_pred_n == np_mean_n(predictions)
        cv == IF mean_pred_n > 0 THEN (ConfScale * std_dev_n) \div mean_pred_n ELSE ConfScale
    IN  Min(ConfScale, ConfScale - cv)

\* confidence_score of predict_with_confidence, in units of 1/ConfScale
confidence_of(predictions) ==
    LET std_dev_n == np_std_n(predictions)
        mean_pred_n == np_mean_n(predictions)
        cv == IF mean_pred_n > 0 THEN (ConfScale * std_dev_n) \div mean_pred_n ELSE ConfScale
    IN  Max(0, Min(ConfScale, ConfScale - cv))

\* margin = 1.96 * std_error of predict_with_confidence
margin_of(tree_preds) == (196 * np_std_n(tree_preds)) \div (100 * Len(tree_preds))

\* zip(a, b) as a sequence of pairs: as long as the shorter one
zip(a, b) == [i \in 1..Min(Len(a), Len(b)) |-> [name |-> a[i], importance |-> b[i]]]

\* predict_with_confidence from the line after prepare_input returned X
predict_from_features(self, X) ==
    LET predicted_price == ensemble_predict(self, X)
        rf_pred == rf_predict(self.models.rf, X)
        gb_pred == tree_predict(self.models.gb, X)
        confidence_score == confidence_of(<< rf_pred, gb_pred, predicted_price >>)
        margin == margin_of(tree_predictions(self.models.rf, X))
    IN  [ predicted_price |-> predicted_price,
          confidence_score |-> confidence_score,
          price_range_min |-> Max(0, predicted_price - margin),
          price_range_max |-> predicted_price + margin,
          feature_importance |-> zip(self.feature_names, self.models.rf.feature_importances_),
          model_metrics |-> self.stats.metrics ]

NoResult == [none |-> TRUE]

\* err = "": result is the returned dict; otherwise the exception re-raised at line 179
predict_with_confidence(self, property_data) ==
    LET p == prepare_input(self, property_data)
    IN  IF p.err # "" THEN [err |-> p.err, result |-> NoResult, ensemble_called |-> FALSE]
        ELSE [err |-> "", result |-> predict_from_features(self, p.X), ensemble_called |-> TRUE]

\* position of the first largest importance in a non-empty sequence of pairs
FirstMax(s) ==
    CHOOSE i \in DOMAIN s :
        /\ \A j \in DOMAIN s : s[j].importance <= s[i].importance
        /\ \A j \in 1..(i - 1) : s[j].importance < s[i].importance

\* s without its i-th element
Without(s, i) == SubSeq(s, 1, i - 1) \o SubSeq(s, i + 1, Len(s))

\* mutant: descending, but equal importances come out in reverse order
RECURSIVE sorted_desc_unstable(_)
sorted_desc_unstable(s) ==
    IF s = <<>> THEN <<>>
    ELSE LET last == CHOOSE i \in DOMAIN s :
                         /\ \A j \in DOMAIN s : s[j].importance <= s[i].importance
                         /\ \A j \in (i + 1)..Len(s) : s[j].importance < s[i].importance
         IN  << s[last] >> \o sorted_desc_unstable(Without(s, last))

\* sorted(items, key=lambda x: x[1], reverse=True): descending and stable
RECURSIVE sorted_desc(_)
sorted_desc(s) ==
    IF s = <<>> THEN <<>>
    ELSE << s[FirstMax(s)] >> \o sorted_desc(Without(s, FirstMax(s)))

\* one explanation sentence: its template and the values formatted into it
Sentence(kind, text, nums, names) == [kind |-> kind, text |-> text, nums |-> nums, names |-> names]

explain_prediction(property_data, prediction_result) ==
    LET top_features == SubSeq(sorted_desc(prediction_result.feature_importance), 1,
                               Min(3, Len(prediction_result.feature_importance)))
    IN  << Sentence("Location", property_data["location"], <<>>, <<>>),
           Sentence("Property Type", property_data["property_type"], <<>>, <<>>) >>
        \o (IF Truthy(dict_get(property_data, "house_size", None))
            THEN << Sentence("House Size", "", << property_data["house_size"][1] >>, <<>>) >>
            ELSE <<>>)
        \o << Sentence("Rooms", "", << property_data["bedrooms"], property_data["bathrooms"] >>, <<>>),
              Sentence("Key factors", "", <<>>,
                       [i \in DOMAIN top_features |-> top_features[i].name]) >>

----------------------------------------------------------------------------
(* PredictionInputSerializer (serializers.py) and the views (views.py) *)

\* FloatField(required=False, allow_null=True, min_value=0)
size_is_valid(data, key) == key \notin DOMAIN data \/ IsNone(data[key]) \/ data[key][1] >= 0

\* mutant: bedrooms has no minimum
is_valid_any_bedrooms(data) ==
    /\ data["property_type"] \in PropertyTypeChoices
    /\ data["location"] \in LocationChoices
    /\ data["bedrooms"] <= 20
    /\ data["bathrooms"] >= 1 /\ data["bathrooms"] <= 20
    /\ size_is_valid(data, "house_size")
    /\ size_is_valid(data, "land_size")

\* PredictionInputSerializer(data=data).is_valid()
is_valid(data) ==
    /\ data["property_type"] \in PropertyTypeChoices
    /\ data["location"] \in LocationChoices
    /\ data["bedrooms"] >= 1 /\ data["bedrooms"] <= 20
    /\ data["bathrooms"] >= 1 /\ data["bathrooms"] <= 20
    /\ size_is_valid(data, "house_size")
    /\ size_is_valid(data, "land_size")

\* the property_data dict both views build from serializer.validated_data
property_data_of(validated_data) ==
    [ property_type |-> validated_data["property_type"],
      location |-> validated_data["location"],
      bedrooms |-> validated_data["bedrooms"],
      bathrooms |-> validated_data["bathrooms"],
      house_size |-> dict_get(validated_data, "house_size", None),
      land_size |-> dict_get(validated_data, "land_size", None) ]

\* the loop of batch_predict over predictions_data[i..]: the results, or the
\* exception that leaves the loop
RECURSIVE batch_loop(_, _, _)
batch_loop(self, predictions_data, results) ==
    IF predictions_data = <<>> THEN [err |-> "", results |-> results]
    ELSE IF ~is_valid(Head(predictions_data))
    THEN batch_loop(self, Tail(predictions_data), results)
    ELSE LET property_data == property_data_of(Head(predictions_data))
             r == predict_with_confidence(self, property_data)
         IN  IF r.err # "" THEN [err |-> r.err, results |-> results]
             ELSE batch_loop(self, Tail(predictions_data),
                             Append(results, [ input |-> property_data,
                                               prediction |-> r.result.predicted_price,
                                               confidence |-> r.result.confidence_score ]))

----------------------------------------------------------------------------
(* Inputs: the concrete scenario of the specification, every request that  *)
(* differs from it in one field, and a few that differ in two.             *)

BaseRequest ==
    [ property_type |-> "Apartment", location |-> "Kilimani", bedrooms |-> 3, bathrooms |-> 2,
      house_size |-> Num(150), land_size |-> Num(0) ]

\* the dict d without the key k
Drop(d, k) == [x \in DOMAIN d \ {k} |-> d[x]]

Inputs ==
    {[BaseRequest EXCEPT !.property_type = t] : t \in PropertyTypeInputs}
    \cup {[BaseRequest EXCEPT !.location = l] : l \in LocationInputs}
    \cup {[BaseRequest EXCEPT !.bedrooms = b] : b \in {0, 1, 21}}
    \cup {[BaseRequest EXCEPT !.bathrooms = 21]}
    \cup {[BaseRequest EXCEPT !.house_size = h] : h \in {None, Num(0), Num(-1)}}
    \cup {[BaseRequest EXCEPT !.land_size = l] : l \in {None, Num(60)}}
    \cup {Drop(BaseRequest, "house_size"), Drop(BaseRequest, "land_size"),
          Drop(Drop(BaseRequest, "house_size"), "land_size"),
          [BaseRequest EXCEPT !.house_size = None, !.land_size = None],
          [BaseRequest EXCEPT !.location = "Atlantis", !.house_size = None]}

BatchItems ==
    { BaseRequest,
      [BaseRequest EXCEPT !.bedrooms = 0],
      [BaseRequest EXCEPT !.house_size = None] }

RECURSIVE SeqsUpTo(_, _)
SeqsUpTo(S, n) ==
    IF n = 0 THEN {<<>>}
    ELSE SeqsUpTo(S, n - 1) \cup {Append(q, x) : q \in SeqsUpTo(S, n - 1), x \in S}

Batches == SeqsUpTo(BatchItems, MaxBatch)

\* The first worker sends every input; the second one sends the scenario and its
\* three nearest variants, and batches one item shorter.
Background ==
    { BaseRequest,
      [BaseRequest EXCEPT !.property_type = "Townhouse"],
      [BaseRequest EXCEPT !.property_type = "Castle"],
      [BaseRequest EXCEPT !.house_size = None] }

Traffic(w) == IF w = "w1" THEN Inputs ELSE Background

BatchTraffic(w) == IF w = "w1" THEN Batches ELSE SeqsUpTo(BatchItems, MaxBatch - 1)

\* prepare_input and the loop of batch_predict, tabulated once over the artifact
\* sets and the inputs (the operators are pure; this only spares re-evaluation)
PropertyDatas == Inputs \cup {property_data_of(data) : data \in Inputs}

prepare_input_of == [self \in ArtifactSets |-> [pd \in PropertyDatas |-> prepare_input(self, pd)]]

batch_loop_of == [self \in ArtifactSets |-> [q \in Batches |-> batch_loop(self, q, <<>>)]]

----------------------------------------------------------------------------
(* State *)

NoCall == [endpoint |-> "none"]

Response(endpoint, input, status, err, result, explanations, results, ensemble_called) ==
    [ endpoint |-> endpoint, input |-> input, status |-> status, err |-> err, result |-> result,
      explanations |-> explanations, results |-> results, ensemble_called |-> ensemble_called ]

NoResp == Response("none", <<>>, "", "", NoResult, <<>>, <<>>, FALSE)

Init ==
    /\ procState = "booting"
    /\ loadState = "UNLOADED"
    /\ predictor = NoPredictor
    /\ nLoads = 0
    /\ pc = [w \in Workers |-> "idle"]
    /\ call = [w \in Workers |-> NoCall]
    /\ resp = [w \in Workers |-> NoResp]
    /\ nRecords = 0

----------------------------------------------------------------------------
(* Start-up: PredictorConfig.ready imports ml_utils, whose last line       *)
(* constructs the singleton; __init__ calls load_models.                   *)

\* apps.py:11 -> ml_utils.py:232 -> __init__ -> load_models is entered
AppReady ==
    /\ procState = "booting" /\ loadState = "UNLOADED"
    /\ loadState' = "LOADING"
    /\ UNCHANGED <<procState, predictor, nLoads, pc, call, resp, nRecords>>

\* all five joblib.load calls succeed; the importer goes on
load_models_ok ==
    /\ loadState = "LOADING"
    /\ \E bank \in ArtifactSets : predictor' = bank
    /\ loadState' = "READY"
    /\ nLoads' = nLoads + 1
    /\ procState' = "serving"
    /\ UNCHANGED <<pc, call, resp, nRecords>>

\* a joblib.load raises; load_models logs and re-raises, the import of ml_utils
\* fails, and ready() catches the exception and prints it
load_models_fail ==
    /\ loadState = "LOADING"
    /\ loadState' = "FAILED"
    /\ procState' = "serving"
    /\ UNCHANGED <<predictor, nLoads, pc, call, resp, nRecords>>

\* mutant: the models are loaded again whenever the views module is imported
import_reload ==
    /\ procState = "serving" /\ loadState \in {"FAILED", "READY"}
    /\ loadState' = "LOADING"
    /\ UNCHANGED <<procState, predictor, nLoads, pc, call, resp, nRecords>>

\* views.py:19 imports ml_utils again when the URLconf is imported for a
\* request: a module whose import failed is executed anew
import_retry ==
    /\ procState = "serving" /\ loadState = "FAILED"
    /\ loadState' = "LOADING"
    /\ UNCHANGED <<procState, predictor, nLoads, pc, call, resp, nRecords>>

----------------------------------------------------------------------------
(* Requests.  A worker runs one call at a time; the calls of different     *)
(* workers interleave between prepare_input and ensemble_predict.          *)

Serving == procState = "serving" /\ loadState = "READY"

\* PredictionRequest rows that calls in flight are going to store
PendingRecords == Cardinality({v \in Workers : pc[v] = "prepared" /\ call[v].endpoint = "predict"})

\* mutant: the PredictionRequest row is created although the prediction raised
predict_begin_storing_failures(w, data) ==
    /\ Serving /\ pc[w] = "idle"
    /\ nRecords + PendingRecords < MaxRecords
    /\ IF ~is_valid(data)
       THEN /\ resp' = [resp EXCEPT ![w] =
                            Response("predict", data, "400", "", NoResult, <<>>, <<>>, FALSE)]
            /\ UNCHANGED <<pc, call, nRecords>>
       ELSE LET property_data == property_data_of(data)
                p == prepare_input_of[predictor][property_data]
            IN  IF p.err # ""
                THEN /\ resp' = [resp EXCEPT ![w] =
                                     Response("predict", data, "500", p.err, NoResult, <<>>, <<>>, FALSE)]
                     /\ nRecords' = nRecords + 1
                     /\ UNCHANGED <<pc, call>>
                ELSE /\ pc' = [pc EXCEPT ![w] = "prepared"]
                     /\ call' = [call EXCEPT ![w] =
                                     [ endpoint |-> "predict", input |-> data,
                                       property_data |-> property_data, X |-> p.X ]]
                     /\ resp' = [resp EXCEPT ![w] = NoResp]
                     /\ UNCHANGED nRecords
    /\ UNCHANGED <<procState, loadState, predictor, nLoads>>

\* PredictionViewSet.predict up to the return of prepare_input
predict_begin(w, data) ==
    /\ Serving /\ pc[w] = "idle"
    /\ nRecords + PendingRecords < MaxRecords
    /\ IF ~is_valid(data)
       THEN /\ resp' = [resp EXCEPT ![w] =
                            Response("predict", data, "400", "", NoResult, <<>>, <<>>, FALSE)]
            /\ UNCHANGED <<pc, call>>
       ELSE LET property_data == property_data_of(data)
                p == prepare_input_of[predictor][property_data]
            IN  IF p.err # ""
                THEN /\ resp' = [resp EXCEPT ![w] =
                                     Response("predict", data, "500", p.err, NoResult, <<>>, <<>>, FALSE)]
                     /\ UNCHANGED <<pc, call>>
                ELSE /\ pc' = [pc EXCEPT ![w] = "prepared"]
                     /\ call' = [call EXCEPT ![w] =
                                     [ endpoint |-> "predict", input |-> data,
                                       property_data |-> property_data, X |-> p.X ]]
                     /\ resp' = [resp EXCEPT ![w] = NoResp]
    /\ UNCHANGED <<procState, loadState, predictor, nLoads, nRecords>>

\* PredictionViewSet.predict from ensemble_predict to the 200 response
predict_finish(w) ==
    /\ pc[w] = "prepared" /\ call[w].endpoint = "predict"
    /\ LET result == predict_from_features(predictor, call[w].X)
           explanations == explain_prediction(call[w].property_data, result)
       IN  resp' = [resp EXCEPT ![w] =
                        Response("predict", call[w].input, "200", "", result, explanations, <<>>, TRUE)]
    /\ nRecords' = nRecords + 1
    /\ pc' = [pc EXCEPT ![w] = "idle"]
    /\ call' = [call EXCEPT ![w] = NoCall]
    /\ UNCHANGED <<procState, loadState, predictor, nLoads>>

\* a caller of the engine's entry point: predictor.predict_with_confidence(property_data),
\* up to the return of prepare_input
call_predict(w, property_data) ==
    /\ Serving /\ pc[w] = "idle"
    /\ LET p == prepare_input_of[predictor][property_data]
       IN  IF p.err # ""
           THEN /\ resp' = [resp EXCEPT ![w] =
                                Response("direct", property_data, "raised", p.err, NoResult, <<>>, <<>>, FALSE)]
                /\ UNCHANGED <<pc, call>>
           ELSE /\ pc' = [pc EXCEPT ![w] = "prepared"]
                /\ call' = [call EXCEPT ![w] =
                                [ endpoint |-> "direct", input |-> property_data,
                                  property_data |-> property_data, X |-> p.X ]]
                /\ resp' = [resp EXCEPT ![w] = NoResp]
    /\ UNCHANGED <<procState, loadState, predictor, nLoads, nRecords>>

\* predict_with_confidence from ensemble_predict to its return
return_predict(w) ==
    /\ pc[w] = "prepared" /\ call[w].endpoint = "direct"
    /\ resp' = [resp EXCEPT ![w] =
                    Response("direct", call[w].input, "returned", "",
                             predict_from_features(predictor, call[w].X), <<>>, <<>>, TRUE)]
    /\ pc' = [pc EXCEPT ![w] = "idle"]
    /\ call' = [call EXCEPT ![w] = NoCall]
    /\ UNCHANGED <<procState, loadState, predictor, nLoads, nRecords>>

\* the batch_predict view
batch_predict(w, predictions_data) ==
    /\ Serving /\ pc[w] = "idle"
    /\ LET b == batch_loop_of[predictor][predictions_data]
       IN  resp' = [resp EXCEPT ![w] =
                        IF b.err # ""
                        THEN Response("batch", predictions_data, "500", b.err, NoResult, <<>>, <<>>, FALSE)
                        ELSE Response("batch", predictions_data, "200", "", NoResult, <<>>, b.results, FALSE)]
    /\ UNCHANGED <<procState, loadState, predictor, nLoads, pc, call, nRecords>>

\* the model_info view, with no active ModelMetrics row stored
model_info(w) ==
    /\ Serving /\ pc[w] = "idle"
    /\ resp' = [resp EXCEPT ![w] =
                    Response("model_info", <<>>, "200", "", NoResult, <<>>,
                             << dict_get(predictor.stats, "metrics", EmptyDict) >>, FALSE)]
    /\ UNCHANGED <<procState, loadState, predictor, nLoads, pc, call, nRecords>>

Next ==
    \/ AppReady
    \/ load_models_ok
    \/ load_models_fail
    \/ import_retry
    \/ \E w \in Workers : \E data \in Traffic(w) : predict_begin(w, data)
    \/ \E w \in Workers : predict_finish(w)
    \/ \E w \in Workers : \E property_data \in Traffic(w) : call_predict(w, property_data)
    \/ \E w \in Workers : return_predict(w)
    \/ \E w \in Workers : \E predictions_data \in BatchTraffic(w) : batch_predict(w, predictions_data)
    \/ \E w \in Workers : model_info(w)

Spec == Init /\ [][Next]_vars

----------------------------------------------------------------------------
(* Properties *)

\* the property_data a finished or running call handed to the engine
PropertyDataOf(r) == IF r.endpoint = "predict" THEN property_data_of(r.input) ELSE r.input

\* the last call of w returned a prediction
HasResult(w) ==
    /\ resp[w].endpoint \in {"predict", "direct"}
    /\ resp[w].status \in {"200", "returned"}

\* the last call of w invoked predict_with_confidence
ReachedEngine(w) ==
    \/ resp[w].endpoint = "direct"
    \/ resp[w].endpoint = "predict" /\ resp[w].status # "400"

\* property_type or location is outside the loaded encoders' classes_
UnknownCategory(self, property_data) ==
    \/ property_data["property_type"] \notin Range(self.le_property.classes_)
    \/ property_data["location"] \notin Range(self.le_location.classes_)

\* house_size (land_size) is absent from the dict or None
Missing(property_data, key) == key \notin DOMAIN property_data \/ IsNone(property_data[key])

\* the feature vector has a column of this name
HasColumn(self, name) == name \in Range(self.feature_names)

\* the position of the column of this name in the feature vector
ColumnOf(self, name) == CHOOSE i \in DOMAIN self.feature_names : self.feature_names[i] = name

TypeOK ==
    /\ procState \in {"booting", "serving"}
    /\ loadState \in {"UNLOADED", "LOADING", "READY", "FAILED"}
    /\ predictor \in ArtifactSets \cup {NoPredictor}
    /\ nLoads \in 0..1
    /\ nRecords \in 0..MaxRecords
    /\ \A w \in Workers : pc[w] \in {"idle", "prepared"}

\* C1 (as stated; the code violates it): every returned prediction has
\* price_range_min <= predicted_price <= price_range_max, also when the blended
\* price is negative.
C1_PriceWithinRange ==
    \A w \in Workers :
        HasResult(w) =>
            /\ resp[w].result.price_range_min <= resp[w].result.predicted_price
            /\ resp[w].result.predicted_price <= resp[w].result.price_range_max

\* C2 (as stated; the code violates it): a call of predict_with_confidence with a
\* property type or location outside the encoders' classes raises the encoder's
\* invalid-category error (the ValueError of prepare_input) and ensemble_predict
\* is never invoked for it.
C2_UnknownCategoryRaises ==
    \A w \in Workers :
        /\ (ReachedEngine(w) /\ UnknownCategory(predictor, PropertyDataOf(resp[w]))) =>
              (resp[w].err = "ValueError" /\ ~resp[w].ensemble_called)
        /\ pc[w] = "prepared" => ~UnknownCategory(predictor, call[w].property_data)

\* The part of C2 the code keeps: ensemble_predict is only ever invoked, and a
\* prediction only ever returned, for categories inside the encoders' classes.
EnsembleOnlyForKnownCategories ==
    \A w \in Workers :
        /\ pc[w] = "prepared" => ~UnknownCategory(predictor, call[w].property_data)
        /\ (ReachedEngine(w) /\ UnknownCategory(predictor, PropertyDataOf(resp[w]))) =>
              (resp[w].err # "" /\ ~resp[w].ensemble_called)

\* C3 (as stated; the code violates it): the predict endpoint answers a request
\* whose property type or location is outside the encoders' classes with 400,
\* never with 500.
C3_UnknownCategoryIs400 ==
    \A w \in Workers :
        (resp[w].endpoint = "predict" /\ UnknownCategory(predictor, resp[w].input)) =>
            resp[w].status = "400"

\* a request the engine can answer once its sizes are there
Answerable(self, property_data) ==
    /\ ~UnknownCategory(self, property_data)
    /\ property_data["bedrooms"] >= 1
    /\ self.feature_names = FeatureNames

\* the value prepare_input must put in the size column: the supplied one, or the median
ExpectedSize(self, property_data, key, column) ==
    IF Missing(property_data, key) THEN self.stats.median_values[column] ELSE property_data[key][1]

\* C4 (as stated; the code violates it): with house_size and/or land_size missing
\* (absent or None) each missing field is replaced by the stored median before
\* feature engineering, a supplied field keeps its value, and the prediction
\* completes.
C4_MissingSizesFilled ==
    \A w \in Workers :
        /\ pc[w] = "prepared" =>
              \A key \in {"house_size", "land_size"} :
                  LET column == IF key = "house_size" THEN "House size" ELSE "Land size"
                  IN  HasColumn(predictor, column) =>
                          call[w].X[ColumnOf(predictor, column)] =
                              ExpectedSize(predictor, call[w].property_data, key, column)
        /\ ( /\ ReachedEngine(w)
             /\ Answerable(predictor, PropertyDataOf(resp[w]))
             /\ \/ Missing(PropertyDataOf(resp[w]), "house_size")
                \/ Missing(PropertyDataOf(resp[w]), "land_size") ) =>
              HasResult(w)

\* C5 (as stated; the code violates it): once loading has FAILED the process does
\* not serve: it never is in the serving state with a failed Model Bank.
C5_FailedLoadStopsProcess == loadState = "FAILED" => procState # "serving"

\* the item of a batch passes the serializer and predict_with_confidence returns for it
Predictable(self, item) ==
    is_valid(item) /\ predict_with_confidence(self, property_data_of(item)).err = ""

\* C6 (as stated; the code violates it): whatever happens to the other items of a
\* batch, every item that is valid and predictable appears in the returned results.
C6_BatchIsolation ==
    \A w \in Workers :
        resp[w].endpoint = "batch" =>
            \A i \in DOMAIN resp[w].input :
                Predictable(predictor, resp[w].input[i]) =>
                    \E j \in DOMAIN resp[w].results :
                        resp[w].results[j].input = property_data_of(resp[w].input[i])

\* the feature vector prepare_input built for the last call of w
FeaturesOf(w) == prepare_input(predictor, PropertyDataOf(resp[w])).X

\* 10 * (0.5 * rf + 0.3 * gb + 0.2 * ridge), rf and gb on X, ridge on the scaled X
BlendTimes10(self, X) ==
    5 * rf_predict(self.models.rf, X) + 3 * tree_predict(self.models.gb, X)
    + 2 * ridge_predict(self.models.ridge, scaler_transform(self.models.scaler, X))

\* C7 (as stated; the code violates it): the price is the 0.5/0.3/0.2 blend, and
\* with the stub models rf = 20, gb = 21, ridge = 19 (millions) and the identity
\* scaler it is exactly 19.9.
C7_StubPriceIs199 ==
    \A w \in Workers :
        HasResult(w) =>
            /\ 10 * resp[w].result.predicted_price = BlendTimes10(predictor, FeaturesOf(w))
            /\ predictor = StubBank => 10 * resp[w].result.predicted_price = 199 * Scale

\* C7 (amended): the price is 0.5 * rf + 0.3 * gb + 0.2 * ridge, rf and gb evaluated
\* on the unscaled feature vector and ridge on the scaled one; with the stub models
\* rf = 20, gb = 21, ridge = 19 and the identity scaler it is exactly 20.1.
C7_EnsembleBlend ==
    \A w \in Workers :
        HasResult(w) =>
            /\ 10 * resp[w].result.predicted_price = BlendTimes10(predictor, FeaturesOf(w))
            /\ predictor = StubBank => 10 * resp[w].result.predicted_price = 201 * Scale

\* C7 witness: the concrete scenario was answered by the stub Model Bank
C7_Witness ==
    \E w \in Workers :
        /\ HasResult(w) /\ predictor = StubBank /\ PropertyDataOf(resp[w]) = BaseRequest
        /\ 10 * resp[w].result.predicted_price = 201 * Scale

\* the three candidate predictions the confidence of the last call of w rests on
CandidatesOf(w) ==
    << rf_predict(predictor.models.rf, FeaturesOf(w)),
       tree_predict(predictor.models.gb, FeaturesOf(w)),
       resp[w].result.predicted_price >>

\* C8: confidence_score is in [0, 1]; it is clamp(1 - std/mean, 0, 1) over the rf
\* prediction, the gb prediction and the ensemble price, and 0 when their mean is <= 0.
C8_ConfidenceScore ==
    \A w \in Workers :
        HasResult(w) =>
            LET c == resp[w].result.confidence_score
                sum == SumSeq(CandidatesOf(w))
                raw == ConfScale - (ConfScale * np_std_n(CandidatesOf(w))) \div sum
            IN  /\ 0 <= c /\ c <= ConfScale
                /\ sum <= 0 => c = 0
                /\ sum > 0 => c = (IF raw < 0 THEN 0 ELSE IF raw > ConfScale THEN ConfScale ELSE raw)

\* C8 witness: a prediction whose three candidates have a mean <= 0 got confidence 0
C8_Witness ==
    \E w \in Workers :
        HasResult(w) /\ SumSeq(CandidatesOf(w)) <= 0 /\ resp[w].result.confidence_score = 0

\* the numbers of a prediction result
NumbersOf(r) ==
    << r.result.predicted_price, r.result.confidence_score,
       r.result.price_range_min, r.result.price_range_max >>

\* C9: two predictions for the same request by the same Model Bank have the same
\* predicted_price, confidence_score and interval bounds, whatever ran between or
\* alongside them.
C9_SameRequestSameResult ==
    \A w1, w2 \in Workers :
        (HasResult(w1) /\ HasResult(w2) /\ PropertyDataOf(resp[w1]) = PropertyDataOf(resp[w2])) =>
            NumbersOf(resp[w1]) = NumbersOf(resp[w2])

\* C9 witness: the same request was answered for a direct caller and, after other
\* predictions had been stored, by the predict endpoint
C9_Witness ==
    \E w1, w2 \in Workers :
        /\ w1 # w2 /\ HasResult(w1) /\ HasResult(w2)
        /\ resp[w1].endpoint = "direct" /\ resp[w2].endpoint = "predict"
        /\ PropertyDataOf(resp[w1]) = PropertyDataOf(resp[w2])
        /\ nRecords >= 2

\* C10: the Model Bank is loaded once, and once it is READY no step changes it,
\* reloads it or leaves READY.
C10_LoadedOnceNeverMutated ==
    [][ /\ nLoads' <= 1
        /\ loadState = "READY" =>
              /\ nLoads = 1
              /\ predictor \in ArtifactSets
              /\ predictor' = predictor /\ loadState' = "READY" /\ nLoads' = 1 ]_vars

\* C10 witness: with the bank loaded once, a prediction was stored and answered and
\* another worker was served by batch_predict or model_info
C10_Witness ==
    /\ loadState = "READY" /\ nLoads = 1 /\ nRecords >= 1
    /\ \E w1, w2 \in Workers :
          /\ HasResult(w1) /\ resp[w1].endpoint = "predict"
          /\ resp[w2].endpoint \in {"batch", "model_info"}

\* C11 (as stated; the code violates it): a call that brings bedrooms = 0 to
\* engineer_features raises DomainError and builds no feature vector.
C11_ZeroBedroomsDomainError ==
    \A w \in Workers :
        /\ (ReachedEngine(w) /\ PropertyDataOf(resp[w])["bedrooms"] = 0) =>
              (resp[w].err = "DomainError" /\ ~resp[w].ensemble_called)
        /\ pc[w] = "prepared" => call[w].property_data["bedrooms"] # 0

\* The part of C11 the code keeps: bedrooms = 0 ends the call with an exception
\* before a feature vector exists, so no ratio is ever computed from it.
NoRatioFromZeroBedrooms ==
    \A w \in Workers :
        /\ (ReachedEngine(w) /\ PropertyDataOf(resp[w])["bedrooms"] = 0) =>
              (resp[w].err # "" /\ ~resp[w].ensemble_called)
        /\ pc[w] = "prepared" => call[w].property_data["bedrooms"] # 0

\* a size as the sum of the claim counts it: 0 when it is missing
SizeOrZero(property_data, key) == IF Missing(property_data, key) THEN 0 ELSE property_data[key][1]

\* C12 (as stated; the code violates it): total_area is house_size + land_size
\* with a missing size counted as 0, whatever median fills that size's own column.
C12_TotalAreaCountsMissingAsZero ==
    \A w \in Workers :
        (pc[w] = "prepared" /\ HasColumn(predictor, "total_area")) =>
            call[w].X[ColumnOf(predictor, "total_area")] =
                SizeOrZero(call[w].property_data, "house_size")
                + SizeOrZero(call[w].property_data, "land_size")

\* margin = 1.96 * std of the per-tree predictions for the last call of w
MarginOf(w) == margin_of(tree_predictions(predictor.models.rf, FeaturesOf(w)))

\* C13 (as stated; the code violates it): in every result price_range_min is
\* max(0, price - margin) >= 0, price_range_max is price + margin with
\* margin >= 0, and price_range_min <= price_range_max.
C13_RangeMinBelowMax ==
    \A w \in Workers :
        HasResult(w) =>
            LET r == resp[w].result
            IN  /\ MarginOf(w) >= 0
                /\ r.price_range_min >= 0
                /\ r.price_range_min = Max(0, r.predicted_price - MarginOf(w))
                /\ r.price_range_max = r.predicted_price + MarginOf(w)
                /\ r.price_range_min <= r.price_range_max

\* The part of C13 the code keeps: the two bounds follow the two formulas and the
\* lower one is never negative.
RangeFormulas ==
    \A w \in Workers :
        HasResult(w) =>
            LET r == resp[w].result
            IN  /\ MarginOf(w) >= 0
                /\ r.price_range_min >= 0
                /\ r.price_range_min = Max(0, r.predicted_price - MarginOf(w))
                /\ r.price_range_max = r.predicted_price + MarginOf(w)

\* the predict endpoint answered the last call of w with 200
Answered200(w) == resp[w].endpoint = "predict" /\ resp[w].status = "200"

\* feature p comes before feature q: a larger weight, or the same weight and an
\* earlier place in feature_names
Precedes(fi, p, q) ==
    \/ fi[p].importance > fi[q].importance
    \/ fi[p].importance = fi[q].importance /\ p < q

\* how many features come before feature p
RankOf(fi, p) == Cardinality({q \in DOMAIN fi : Precedes(fi, q, p)})

\* the last explanation sentence of the answer to w
LastSentence(w) == resp[w].explanations[Len(resp[w].explanations)]

\* C14: the last explanation sentence names the 3 features of largest importance,
\* largest first, equal weights in feature_names order; with fewer than 3 features
\* it names all of them in that order.
C14_TopThreeFeatures ==
    \A w \in Workers :
        Answered200(w) =>
            LET fi == resp[w].result.feature_importance
                names == LastSentence(w).names
            IN  /\ fi = zip(predictor.feature_names, predictor.models.rf.feature_importances_)
                /\ LastSentence(w).kind = "Key factors"
                /\ Len(names) = (IF Len(fi) < 3 THEN Len(fi) ELSE 3)
                /\ \A i \in DOMAIN names :
                       \E p \in DOMAIN fi : RankOf(fi, p) = i - 1 /\ names[i] = fi[p].name

\* C14 witness: among ten features, three of which share the third largest weight,
\* the sentence names the two largest and the first of the three
C14_Witness ==
    \E w \in Workers :
        /\ Answered200(w)
        /\ Len(resp[w].result.feature_importance) = 10
        /\ Cardinality({p \in 1..10 : resp[w].result.feature_importance[p].importance = 10}) = 3
        /\ LastSentence(w).names = << "Location", "House size", "Bedroom" >>

\* C14, the case of fewer than 3 features: both are named, the heavier one first
C14_FewFeatures ==
    \E w \in Workers :
        /\ Answered200(w)
        /\ Len(resp[w].result.feature_importance) = 2
        /\ LastSentence(w).names = << "House size", "Location" >>

\* the kinds of the explanation sentences of the answer to w, in order
KindsOf(w) == [i \in DOMAIN resp[w].explanations |-> resp[w].explanations[i].kind]

\* the sentences of an explanation with and without the one about the size
KindsWithSize(with_size) ==
    << "Location", "Property Type" >>
    \o (IF with_size THEN << "House Size" >> ELSE <<>>)
    \o << "Rooms", "Key factors" >>

\* C15 (as stated; the code violates it): the explanation has the size sentence
\* exactly when the request provided house_size, a provided 0 included: five
\* sentences then, four when house_size is missing.
C15_SizeSentenceWhenProvided ==
    \A w \in Workers :
        Answered200(w) =>
            KindsOf(w) = KindsWithSize(~Missing(resp[w].input, "house_size"))

\* The part of C15 the code keeps: the order of the sentences, with the size
\* sentence exactly when house_size is a number other than 0.
SizeSentenceWhenNonZero ==
    \A w \in Workers :
        Answered200(w) =>
            KindsOf(w) = KindsWithSize(Truthy(dict_get(resp[w].input, "house_size", None)))

\* feature_names does not match the fields prepare_input produces: a name that is
\* not among them, or another length
FeatureNamesMismatch(self) ==
    \/ \E i \in DOMAIN self.feature_names : self.feature_names[i] \notin Range(FeatureNames)
    \/ Len(self.feature_names) # Len(FeatureNames)

\* C16 (as stated; the code violates it): loading never ends READY with a Model
\* Bank whose feature_names mismatch the feature vector, and no request is the
\* first to discover such a mismatch.
C16_MismatchDetectedAtStartup ==
    /\ loadState = "READY" => ~FeatureNamesMismatch(predictor)
    /\ \A w \in Workers : resp[w].err # "KeyError"

\* this step ends the predict call of w: explain_prediction has returned
Finishes(w) == pc[w] = "prepared" /\ pc'[w] = "idle" /\ call[w].endpoint = "predict"

\* this step gives w an answer other than the one it had
Answers(w) ==
    /\ resp'[w].endpoint # "none"
    /\ \/ resp'[w].endpoint # resp[w].endpoint
       \/ resp'[w].status # resp[w].status
       \/ resp'[w].input # resp[w].input

\* C17: a PredictionRequest record is added exactly by the step that ends a predict
\* call with 200, after predict_with_confidence and explain_prediction returned;
\* a step that answers 400 or 500, and every batch_predict, adds none.
C17_RecordOnlyWith200 ==
    [][ /\ nRecords' = nRecords + Cardinality({w \in Workers : Finishes(w)})
        /\ \A w \in Workers :
              /\ Finishes(w) =>
                    /\ resp'[w].endpoint = "predict" /\ resp'[w].status = "200"
                    /\ resp'[w].result = predict_from_features(predictor, call[w].X)
                    /\ resp'[w].explanations =
                           explain_prediction(call[w].property_data, resp'[w].result)
              /\ (Answers(w) /\ resp'[w].endpoint = "predict" /\ resp'[w].status = "200") =>
                    (Finishes(w) /\ nRecords' = nRecords + 1)
              /\ (Answers(w) /\ resp'[w].status \in {"400", "500"}) => nRecords' = nRecords
              /\ (Answers(w) /\ resp'[w].endpoint = "batch") => nRecords' = nRecords ]_vars

\* C17 witness: one record is stored, for the one request answered with 200, while
\* batch_predict returned a prediction of its own without storing it
C17_Witness ==
    /\ nRecords = 1
    /\ \E w1, w2 \in Workers :
          /\ Answered200(w1)
          /\ resp[w2].endpoint = "batch" /\ resp[w2].status = "200" /\ Len(resp[w2].results) >= 1

\* C17, the failed request: one record is stored while the predict endpoint
\* answered the other worker with 500
C17_FailedRequestStoresNothing ==
    /\ nRecords = 1
    /\ \E w1, w2 \in Workers :
          /\ Answered200(w1)
          /\ resp[w2].endpoint = "predict" /\ resp[w2].status = "500"

\* a request the declared input rules reject: a room count outside 1..20, a
\* negative size, a property type or location outside the declared choices
Rejected(data) ==
    \/ data["bedrooms"] \notin 1..20
    \/ data["bathrooms"] \notin 1..20
    \/ \E key \in {"house_size", "land_size"} : ~Missing(data, key) /\ data[key][1] < 0
    \/ data["property_type"] \notin PropertyTypeChoices
    \/ data["location"] \notin LocationChoices

\* a request the declared input rules accept
Accepted(data) == ~Rejected(data)

\* C18: the predict endpoint answers a rejected request with 400 and never hands
\* it to the predictor; batch_predict answers as if the rejected items were not in
\* the batch; so no request with bedrooms < 1 reaches engineer_features through
\* either endpoint.
C18_RejectedNeverReachesPredictor ==
    \A w \in Workers :
        /\ (resp[w].endpoint = "predict" /\ Rejected(resp[w].input)) =>
              /\ resp[w].status = "400" /\ resp[w].err = ""
              /\ ~resp[w].ensemble_called /\ resp[w].result = NoResult
        /\ (pc[w] = "prepared" /\ call[w].endpoint = "predict") =>
              (Accepted(call[w].input) /\ call[w].property_data["bedrooms"] >= 1)
        /\ resp[w].endpoint \in {"predict", "batch"} => resp[w].err # "ZeroDivisionError"
        /\ resp[w].endpoint = "batch" =>
              LET b == batch_loop_of[predictor][SelectSeq(resp[w].input, Accepted)]
              IN  /\ resp[w].err = b.err
                  /\ b.err = "" => resp[w].results = b.results
                  /\ \A j \in DOMAIN resp[w].results : resp[w].results[j].input["bedrooms"] >= 1

\* C18 witness: a request with bedrooms = 0 was answered 400 by the predict
\* endpoint, and a batch holding only such a request was answered with no results
C18_Witness ==
    \E w1, w2 \in Workers :
        /\ resp[w1].endpoint = "predict" /\ resp[w1].input["bedrooms"] = 0
        /\ resp[w1].status = "400"
        /\ resp[w2].endpoint = "batch" /\ Len(resp[w2].input) = 1
        /\ resp[w2].input[1]["bedrooms"] = 0
        /\ resp[w2].status = "200" /\ resp[w2].results = <<>>

\* C18, a mixed batch: the request with bedrooms = 0 is skipped and the one after
\* it is predicted
C18_MixedBatch ==
    \E w \in Workers :
        /\ resp[w].endpoint = "batch" /\ Len(resp[w].input) = 2
        /\ resp[w].input[1]["bedrooms"] = 0 /\ Accepted(resp[w].input[2])
        /\ resp[w].status = "200" /\ Len(resp[w].results) = 1
        /\ resp[w].results[1].input = property_data_of(resp[w].input[2])

====
